---------------------------- MODULE Spec2Model ----------------------------
(***************************************************************************)
(* State-machine model of script.js (portfolio page behaviour).            *)
(*                                                                         *)
(*  - the toast registry: showToast / removeToast and the auto-close       *)
(*    timers that showToast schedules with setTimeout;                     *)
(*  - the active-section tracker: the IntersectionObserver callback of     *)
(*    initSmoothScrollAndActiveLinks;                                      *)
(*  - the contact form's submit handler, which drives the toast registry;  *)
(*  - the mobile menu (initHamburgerNav), the project preview modals       *)
(*    (openProjectModal) and the document-level Escape handling.           *)
(*                                                                         *)
(* SpecToast runs the toast operations, SpecNav the observer callbacks,    *)
(* SpecForm the form submissions, SpecLifecycle the form together with     *)
(* page code that drives a 'sending' toast by hand, SpecUI the menu and    *)
(* the modals.                                                             *)
(***************************************************************************)
EXTENDS Integers, Sequences, FiniteSets, TLC

VARIABLES
    _toasts,        \* the Map `_toasts`: id -> toast element          (l.349)
    wrapperExists,  \* whether #vk-toast-wrapper is in the document    (l.353-367)
    wrapper,        \* children of the wrapper, in document order      (l.388)
    textContent,    \* el.textContent of every created element         (l.372, 378)
    timers,         \* pending setTimeout callbacks, in creation order (l.392)
    nextEl,         \* identity of the next element createElement makes (l.376)
    ret,            \* value returned by the last showToast call       (l.373, 394)
    threw,          \* whether the last operation ended in an uncaught exception
    autoEls,        \* history: attached elements created with auto-close enabled
    removedByCall,  \* history: elements with a pending timer that a removeToast
                    \* call (not a timer) detached
    last,           \* history: the operation that produced this state, whether
                    \* its id was registered, and showToast's arguments
    observerSupported, \* 'IntersectionObserver' in window             (l.92)
    href,           \* href attribute of every .nav-link               (l.57, 60)
    sections,       \* the observed sections, in observe order         (l.58, 117)
    active,         \* which links carry class 'active'                (l.103, 106)
    vis,            \* per section: the intersection state last reported (l.93)
    cb,             \* history: entries and choice of the last observer callback
    everSelected,   \* history: some observer callback has selected a section
    scenario,       \* history: how far the run follows the pending -> resolved
                    \* sequence of toast calls, and nothing else
    navMenuActive,  \* .nav-menu carries class 'active'                (l.31)
    hamburgerIsOpen, \* .hamburger carries class 'is-open'             (l.34)
    ariaExpanded,   \* aria-expanded attribute of .hamburger           (l.32)
    bodyOverflow,   \* document.body.style.overflow                    (l.35)
    overlays,       \* the .project-overlay children of body, in document order
    overlayTitle,   \* per overlay in the document: the title it shows (l.182)
    escListeners,   \* the modal escListeners registered on document, in
                    \* registration order, each named by its overlay  (l.251)
    uiLast          \* history: the event that produced this state

toastVars == <<_toasts, wrapperExists, wrapper, textContent, timers, nextEl,
               ret, threw, autoEls, removedByCall, last>>
navVars == <<observerSupported, href, sections, active, vis, cb>>
trackVars == <<everSelected, scenario>>
menuVars == <<navMenuActive, hamburgerIsOpen, ariaExpanded, bodyOverflow>>
modalVars == <<overlays, overlayTitle, escListeners>>
uiVars == <<menuVars, modalVars, uiLast>>
vars == <<toastVars, navVars, trackVars, uiVars>>

----------------------------------------------------------------------------
(* Bounds of the model *)

\* number of toast elements created in one run
MaxToasts == 3
\* number of .nav-link elements on the page
NumLinks == 3
\* intersection ratios are the threshold indices 0..MaxRatio
MaxRatio == 2

----------------------------------------------------------------------------
(* Inputs *)

\* opts.id absent (or the empty string): falsy in `opts.id || ...`
NoId == ""
CallerIds == {"sending"}
\* values `t_${Math.random().toString(36).slice(2,9)}` can produce
GenIds == {"t_a", "t_b"}
ToastIds == CallerIds \cup GenIds
Messages == {"m1", "m2"}
\* opts.autoClose: absent, true or false
AutoCloseOpts == {"undefined", "true", "false"}
\* opts.duration absent
NoDuration == -1
DurationOpts == {NoDuration, 0, 100}
DefaultDuration == 3000

NoEl == 0
Elements == 1..MaxToasts

Range(s) == {s[i] : i \in DOMAIN s}

----------------------------------------------------------------------------
(* showToast, removeToast *)

\* l.351: const id = opts.id || `t_${Math.random()...}`
ResolveId(optId, gen) == IF optId # NoId THEN optId ELSE gen

\* mutant: the update-by-id branch is never taken
HasToastNever(id) == FALSE

\* l.370: _toasts.has(id)
HasToast(id) == id \in DOMAIN _toasts

\* l.371, 399: _toasts.get(id); NoEl stands for undefined
GetToast(id) == IF id \in DOMAIN _toasts THEN _toasts[id] ELSE NoEl

\* l.391: opts.autoClose !== false
ShouldAutoClose(optAutoClose) == optAutoClose # "false"

\* l.392: opts.duration || 3000
TimerDelay(optDuration) ==
    IF optDuration = NoDuration \/ optDuration = 0
    THEN DefaultDuration ELSE optDuration

\* mutant: the timer callback loses the id it should remove
NewTimerNoId(id, delay, el) == [id |-> NoId, delay |-> delay, el |-> el]

\* l.392: setTimeout(() => removeToast(id), delay).  The closure keeps the id
\* only; `el` records which element the scheduling call created.
NewTimer(id, delay, el) == [id |-> id, delay |-> delay, el |-> el]

\* mutant: the element is inserted before the others
PrependChild(children, el) == <<el>> \o children

\* l.388: wrapper.appendChild(el)
AppendChild(children, el) == Append(children, el)

\* mutant: the element is not detached
DetachNothing(children, el) == children

\* l.401: el.remove()
Detach(children, el) == SelectSeq(children, LAMBDA c : c # el)

\* l.402: _toasts.delete(id)
MapDelete(m, id) == [k \in DOMAIN m \ {id} |-> m[k]]

\* mutant: the new element is not registered
MapSetDropped(m, id, el) == m

\* l.389: _toasts.set(id, el)
MapSet(m, id, el) == [k \in DOMAIN m \cup {id} |-> IF k = id THEN el ELSE m[k]]

\* l.372, 378: el.textContent = message (text is kept for attached elements)
SetText(text, el, message) ==
    [e \in DOMAIN text \cup {el} |-> IF e = el THEN message ELSE text[e]]
DropText(text, el) == [e \in DOMAIN text \ {el} |-> text[e]]

\* mutant: the `if (!el) return` guard is missing
RemoveReturnsEarlyIdOnly(id) == id = NoId

\* l.398, 400: if (!id) return; ... if (!el) return;
RemoveReturnsEarly(id) == id = NoId \/ GetToast(id) = NoEl

\* l.397-403: the body of removeToast.  Past the two early returns,
\* el.remove() on undefined is a TypeError and nothing after it runs.
RemoveBody(id) ==
    IF RemoveReturnsEarly(id)
    THEN /\ threw' = FALSE
         /\ UNCHANGED <<_toasts, wrapper, textContent, autoEls>>
    ELSE IF GetToast(id) = NoEl
    THEN /\ threw' = TRUE
         /\ UNCHANGED <<_toasts, wrapper, textContent, autoEls>>
    ELSE /\ threw' = FALSE
         /\ wrapper' = Detach(wrapper, GetToast(id))
         /\ _toasts' = MapDelete(_toasts, id)
         /\ textContent' = DropText(textContent, GetToast(id))
         /\ autoEls' = autoEls \ {GetToast(id)}

HasTimer(el) == \E i \in DOMAIN timers : timers[i].el = el

\* l.350-395
ShowToast(message, optId, optAutoClose, optDuration, gen) ==
    LET id == ResolveId(optId, gen) IN
    /\ wrapperExists' = TRUE
    /\ ret' = id
    /\ threw' = FALSE
    /\ IF HasToast(id)
       THEN /\ textContent' = SetText(textContent, GetToast(id), message)
            /\ last' = [op |-> "showToast", hit |-> TRUE, optId |-> optId, msg |-> message]
            /\ UNCHANGED <<_toasts, wrapper, timers, nextEl, autoEls, removedByCall>>
       ELSE /\ nextEl <= MaxToasts
            /\ LET el == nextEl IN
               /\ textContent' = SetText(textContent, el, message)
               /\ wrapper' = AppendChild(wrapper, el)
               /\ _toasts' = MapSet(_toasts, id, el)
               /\ timers' = IF ShouldAutoClose(optAutoClose)
                            THEN Append(timers, NewTimer(id, TimerDelay(optDuration), el))
                            ELSE timers
               /\ autoEls' = IF ShouldAutoClose(optAutoClose)
                             THEN autoEls \cup {el} ELSE autoEls
               /\ nextEl' = nextEl + 1
               /\ last' = [op |-> "showToast", hit |-> FALSE, optId |-> optId, msg |-> message]
               /\ UNCHANGED removedByCall
    /\ UNCHANGED navVars

\* l.397-403, called by page code
RemoveToast(id) ==
    /\ RemoveBody(id)
    /\ removedByCall' = IF GetToast(id) # NoEl /\ HasTimer(GetToast(id))
                        THEN removedByCall \cup {GetToast(id)}
                        ELSE removedByCall
    /\ ret' = NoId
    /\ last' = [op |-> "removeToast", hit |-> GetToast(id) # NoEl,
                optId |-> NoId, msg |-> ""]
    /\ UNCHANGED <<wrapperExists, timers, nextEl>>
    /\ UNCHANGED navVars

\* Timers run in order of expiry: a timer cannot run while an earlier
\* scheduled one with a delay no larger is still pending.
MayFire(i) ==
    \A j \in 1..(i - 1) : timers[j].delay > timers[i].delay

RemoveAt(s, i) == [k \in 1..(Len(s) - 1) |-> IF k < i THEN s[k] ELSE s[k + 1]]

\* l.392: the callback () => removeToast(id) runs
TimerFire(i) ==
    /\ i \in DOMAIN timers
    /\ MayFire(i)
    /\ RemoveBody(timers[i].id)
    /\ timers' = RemoveAt(timers, i)
    /\ removedByCall' = removedByCall \ {timers[i].el}
    /\ ret' = NoId
    /\ last' = [op |-> "timer", hit |-> GetToast(timers[i].id) # NoEl,
                optId |-> NoId, msg |-> ""]
    /\ UNCHANGED <<wrapperExists, nextEl>>
    /\ UNCHANGED navVars

----------------------------------------------------------------------------
(* Active-section tracker: initSmoothScrollAndActiveLinks *)

\* ids of the section elements in the document
Sections == {"a", "b", "c"}
NoSection == "none"

\* An href is modelled by whether it starts with '#' and by what follows:
\* "#a" is [hash |-> TRUE, rest |-> "a"].  "#gone" names no element of the
\* document; the href without '#' is an external link (or a missing href, '').
Hrefs ==
    {[hash |-> TRUE, rest |-> r] : r \in Sections \cup {"gone"}}
        \cup {[hash |-> FALSE, rest |-> "ext"]}
Links == 1..NumLinks

\* l.63: document.getElementById(id)
GetElementById(id) == IF id \in Sections THEN id ELSE NoSection

\* l.59-64: the section a link is bound to, NoSection for null
LinkTarget(h) == IF ~h.hash THEN NoSection ELSE GetElementById(h.rest)

\* l.58-65, 117: the sections handed to observer.observe, in link order;
\* observing an element that is already observed changes nothing.
RECURSIVE ObserveFrom(_, _)
ObserveFrom(hs, l) ==
    IF l > Len(hs) THEN <<>>
    ELSE LET rest == ObserveFrom(hs, l + 1)
             t == LinkTarget(hs[l])
         IN IF t = NoSection THEN rest
            ELSE <<t>> \o SelectSeq(rest, LAMBDA x : x # t)
Observed(hs) == ObserveFrom(hs, 1)

\* An IntersectionObserverEntry: isIntersecting and intersectionRatio, the
\* ratio counted in thresholds crossed (l.113, 120-124).
VisStates ==
    {v \in [isIntersecting : BOOLEAN, intersectionRatio : 0..MaxRatio] :
        v.intersectionRatio > 0 => v.isIntersecting}
\* before the first report of a target
NotReported == [isIntersecting |-> FALSE, intersectionRatio |-> -1]

\* mutant: the isIntersecting filter is missing
IntersectingUnfiltered(entries, v) == entries

\* l.96: entries.filter(e => e.isIntersecting)
Intersecting(entries, v) == SelectSeq(entries, LAMBDA s : v[s].isIntersecting)

\* l.97: .sort((a, b) => b.intersectionRatio - a.intersectionRatio)[0]
\* Array.prototype.sort is stable: the first entry of the highest ratio.
RECURSIVE FirstMax(_, _)
FirstMax(entries, v) ==
    IF entries = <<>> THEN NoSection
    ELSE LET best == FirstMax(Tail(entries), v) IN
         IF best = NoSection
               \/ v[Head(entries)].intersectionRatio >= v[best].intersectionRatio
         THEN Head(entries) ELSE best

\* l.95-97
Visible(entries, v) == FirstMax(Intersecting(entries, v), v)

\* l.102: l.getAttribute('href') === `#${id}`
HrefNames(h, id) == h.hash /\ h.rest = id

\* mutant: the else branch that clears the other links is missing
HighlightAddOnly(hs, id) == [l \in DOMAIN hs |-> HrefNames(hs[l], id) \/ active[l]]

\* l.101-109: links.forEach(...)
Highlight(hs, id) == [l \in DOMAIN hs |-> HrefNames(hs[l], id)]

\* The observer reports the targets whose intersection state changed since
\* their last report, in the order they were observed (all of them the first
\* time).
Changed(entriesOrder, old, new) == SelectSeq(entriesOrder, LAMBDA s : new[s] # old[s])

\* l.93-111: one run of the IntersectionObserver callback
ObserverCallback(new) ==
    /\ observerSupported
    /\ \A s \in Sections :
          IF s \in Range(sections) THEN new[s] \in VisStates ELSE new[s] = vis[s]
    /\ LET entries == Changed(sections, vis, new)
           visible == Visible(entries, new)
       IN /\ entries # <<>>
          /\ active' = IF visible # NoSection THEN Highlight(href, visible) ELSE active
          /\ cb' = [entries |-> Range(entries), visible |-> visible]
    /\ vis' = new
    /\ UNCHANGED <<observerSupported, href, sections>>
    /\ UNCHANGED toastVars

----------------------------------------------------------------------------
(* Initial state and specifications *)

InitToast ==
    /\ _toasts = <<>>
    /\ wrapperExists = FALSE
    /\ wrapper = <<>>
    /\ textContent = <<>>
    /\ timers = <<>>
    /\ nextEl = 1
    /\ ret = NoId
    /\ threw = FALSE
    /\ autoEls = {}
    /\ removedByCall = {}
    /\ last = [op |-> "init", hit |-> FALSE, optId |-> NoId, msg |-> ""]

\* the tracker on a page without navigation links
InitNavIdle ==
    /\ observerSupported = FALSE
    /\ href = <<>>
    /\ sections = <<>>
    /\ active = <<>>
    /\ vis = [s \in Sections |-> NotReported]
    /\ cb = [entries |-> {}, visible |-> NoSection]

\* l.56-65, 92, 117: any page of NumLinks links, no link marked active
InitNav ==
    /\ observerSupported \in BOOLEAN
    /\ href \in [Links -> Hrefs]
    /\ sections = Observed(href)
    /\ active = [l \in Links |-> FALSE]
    /\ vis = [s \in Sections |-> NotReported]
    /\ cb = [entries |-> {}, visible |-> NoSection]

\* no callback has run, no toast call has been made
InitTrack ==
    /\ everSelected = FALSE
    /\ scenario = "start"

\* a page whose menu stays closed and that opens no preview
InitUIIdle ==
    /\ navMenuActive = FALSE
    /\ hamburgerIsOpen = FALSE
    /\ ariaExpanded = "false"
    /\ bodyOverflow = ""
    /\ overlays = <<>>
    /\ overlayTitle = <<>>
    /\ escListeners = <<>>
    /\ uiLast = [ev |-> "load", menuWasOpen |-> FALSE, overlaysBefore |-> 0]

\* A call names an id, or names none and Math.random supplies one (l.351).
ShowToastCalls(messages) ==
    \E message \in messages, optAutoClose \in AutoCloseOpts, optDuration \in DurationOpts :
        \/ \E optId \in CallerIds :
               ShowToast(message, optId, optAutoClose, optDuration, NoId)
        \/ \E gen \in GenIds :
               ShowToast(message, NoId, optAutoClose, optDuration, gen)

CallShowToast == ShowToastCalls(Messages) /\ UNCHANGED <<trackVars, uiVars>>

CallRemoveToast ==
    /\ \E id \in ToastIds \cup {NoId} : RemoveToast(id)
    /\ UNCHANGED <<trackVars, uiVars>>

FireTimer ==
    /\ \E i \in DOMAIN timers : TimerFire(i)
    /\ UNCHANGED <<trackVars, uiVars>>

NextToast == CallShowToast \/ CallRemoveToast \/ FireTimer

InitToastOnly == InitToast /\ InitNavIdle /\ InitTrack /\ InitUIIdle

SpecToast == InitToastOnly /\ [][NextToast]_vars

NextNav ==
    /\ \E new \in [Sections -> VisStates \cup {NotReported}] : ObserverCallback(new)
    /\ everSelected' = (everSelected \/ cb'.visible # NoSection)
    /\ UNCHANGED <<scenario, uiVars>>

InitNavOnly == InitToast /\ InitNav /\ InitTrack /\ InitUIIdle

SpecNav == InitNavOnly /\ [][NextNav]_vars


\* The event loop runs every expired timer callback: weak fairness of FireTimer.
\* The text of the toasts plays no part in what the timers do, so the fair
\* specification calls showToast with one message.
CallShowToastOneMessage == ShowToastCalls({"m1"}) /\ UNCHANGED <<trackVars, uiVars>>

NextToastFair == CallShowToastOneMessage \/ CallRemoveToast \/ FireTimer

SpecToastFair ==
    InitToastOnly /\ [][NextToastFair]_vars /\ WF_vars(FireTimer)

----------------------------------------------------------------------------
(* Properties of the toast registry *)

RegistryEls == {_toasts[id] : id \in DOMAIN _toasts}

\* C1: the registry and the container always agree: every registered id has
\* its own element in the container, every element in the container is the
\* element of exactly one registered id, and no element appears twice.
RegistryMatchesContainer ==
    /\ RegistryEls = Range(wrapper)
    /\ \A a, b \in DOMAIN _toasts : _toasts[a] = _toasts[b] => a = b
    /\ Len(wrapper) = Cardinality(Range(wrapper))
    /\ Len(wrapper) = Cardinality(DOMAIN _toasts)
    /\ wrapper # <<>> => wrapperExists

\* C1 witness: two toasts are displayed after an explicit removal left a
\* stale timer behind.
RegistryAfterMixedOps ==
    /\ Len(wrapper) >= 2
    /\ removedByCall # {}

\* C2 (as claimed): the timer of an entry that removeToast already removed
\* changes neither the registry nor the container when it fires.
StaleTimerHasNoEffect ==
    [][\A i \in DOMAIN timers :
         (TimerFire(i) /\ timers[i].el \in removedByCall)
            => UNCHANGED <<_toasts, wrapper>>]_vars

\* C3 (as claimed): an element created with autoClose false leaves the
\* container only in a removeToast call, never in a timer firing.
NoAutoCloseStaysUntilRemoved ==
    [][\A e \in Elements :
         (e \in Range(wrapper) /\ e \notin autoEls /\ e \notin Range(wrapper'))
            => last'.op = "removeToast"]_vars

\* C4: showToast on an id that is registered replaces the text of that
\* entry's element by the new message, returns the id, and changes neither
\* the registry, the container, the other texts nor the pending timers.
UpdateInPlace ==
    [][(last'.op = "showToast" /\ ret' \in DOMAIN _toasts)
         => /\ last'.optId # NoId => ret' = last'.optId
            /\ textContent'[_toasts[ret']] = last'.msg
            /\ DOMAIN textContent' = DOMAIN textContent
            /\ \A e \in DOMAIN textContent \ {_toasts[ret']} :
                   textContent'[e] = textContent[e]
            /\ UNCHANGED <<_toasts, wrapper, timers>>]_vars

\* C4 witness: an update-by-id has just run while timers were pending.
UpdatedExisting ==
    /\ last.op = "showToast"
    /\ last.hit
    /\ ret \in DOMAIN _toasts
    /\ timers # <<>>

\* C5: showToast on an id that is not registered adds exactly one registry
\* entry and exactly one container element, and returns the id.
FreshShowAddsOne ==
    [][(last'.op = "showToast" /\ ret' \notin DOMAIN _toasts)
         => /\ last'.optId # NoId => ret' = last'.optId
            /\ DOMAIN _toasts' = DOMAIN _toasts \cup {ret'}
            /\ Cardinality(DOMAIN _toasts') = Cardinality(DOMAIN _toasts) + 1
            /\ Len(wrapper') = Len(wrapper) + 1
            /\ Cardinality(Range(wrapper')) = Cardinality(Range(wrapper)) + 1]_vars

\* C5 witness: a sequence of creating calls, the last one just returned.
CreatedSeveral ==
    /\ last.op = "showToast"
    /\ ~last.hit
    /\ Len(wrapper) >= 2
    /\ ret \in DOMAIN _toasts

\* C6: removeToast on an id that is not registered throws nothing and leaves
\* the registry, the container, the texts and the pending timers as they were.
RemoveMissingIsNoop ==
    [][\A id \in ToastIds \cup {NoId} :
         (id \notin DOMAIN _toasts /\ RemoveToast(id))
            => /\ ~threw'
               /\ UNCHANGED <<_toasts, wrapper, textContent, timers, wrapperExists>>]_vars

\* C6 witness: a removeToast call found nothing to remove although toasts
\* are displayed and an earlier call did remove one.
RemovedMissing ==
    /\ last.op = "removeToast"
    /\ ~last.hit
    /\ wrapper # <<>>
    /\ removedByCall # {}

\* C7: every element created with auto-close enabled is eventually out of
\* the container (and with it out of the registry).
AutoCloseEventuallyGone ==
    \A e \in Elements : (e \in autoEls) ~> (e \notin Range(wrapper))

\* C7 witness: a timer firing has just removed an entry.
TimerRemovedEntry ==
    /\ last.op = "timer"
    /\ last.hit
    /\ Len(wrapper) >= 1

----------------------------------------------------------------------------
(* Properties of the active-section tracker *)

ActiveLinks == {l \in DOMAIN active : active[l]}
IntersectingNow == {s \in Range(sections) : vis[s].isIntersecting}
Anchor(id) == [hash |-> TRUE, rest |-> id]

\* C8 (as claimed): the section a callback selects has the highest
\* intersection ratio of all observed sections that intersect at that moment.
SelectsMostVisibleOfAll ==
    cb.visible # NoSection
        => \A s \in IntersectingNow :
               vis[s].intersectionRatio <= vis[cb.visible].intersectionRatio

\* C9 (as claimed): at most one navigation link is marked active, on every page.
AtMostOneActiveLink == Cardinality(ActiveLinks) <= 1

\* C10: after a callback with an intersecting entry, exactly the links bound
\* to the selected section are marked active; when b is the only section that
\* intersects, these are the links bound to b.
ActiveIsSelected ==
    cb.visible # NoSection
        => /\ cb.visible \in cb.entries
           /\ vis[cb.visible].isIntersecting
           /\ \A l \in DOMAIN href :
                  active[l] <=> LinkTarget(href[l]) = cb.visible
           /\ \A b \in Sections :
                  IntersectingNow = {b}
                     => \A l \in DOMAIN href : active[l] <=> LinkTarget(href[l]) = b

\* C10 witness: on the page with links #a, #b, #c, section b is the only one
\* that intersects after a callback that reported a and b and selected b.
OnlyBIntersects ==
    /\ NumLinks >= 3
    /\ SubSeq(href, 1, 3) = <<Anchor("a"), Anchor("b"), Anchor("c")>>
    /\ IntersectingNow = {"b"}
    /\ cb.visible = "b"
    /\ "a" \in cb.entries
    /\ active[2] /\ ~active[1] /\ ~active[3]

\* C11: an observer callback none of whose entries intersects leaves the
\* active mark of every link as it was.
NoIntersectionKeepsActive ==
    [][(vis' # vis /\ \A s \in Sections : vis'[s] # vis[s] => ~vis'[s].isIntersecting)
         => active' = active]_vars

\* C11 witness: the last callback selected nothing, and the link marked by an
\* earlier callback is still marked although no section intersects any more.
KeptAfterEmptyCallback ==
    /\ cb.entries # {}
    /\ cb.visible = NoSection
    /\ IntersectingNow = {}
    /\ ActiveLinks # {}

\* C12 (as claimed): once a callback has selected a section, exactly one
\* navigation link is marked active, in that state and in every later one.
ExactlyOneActiveOnceSelected ==
    everSelected => Cardinality(ActiveLinks) = 1

----------------------------------------------------------------------------
(* Further properties of the toast registry *)

\* C14 (as claimed): when showToast creates an auto-closing entry, the delay
\* of the timer it schedules is the duration the caller supplied, whatever
\* integer that is (0 included), and the default only when none was supplied.
TimerDelayIsSuppliedDuration ==
    [][\A message \in Messages, optId \in CallerIds \cup {NoId},
          optAutoClose \in AutoCloseOpts, optDuration \in DurationOpts,
          gen \in GenIds \cup {NoId} :
         (/\ ShowToast(message, optId, optAutoClose, optDuration, gen)
          /\ Len(timers') = Len(timers) + 1)
            => timers'[Len(timers')].delay =
                   IF optDuration = NoDuration THEN DefaultDuration ELSE optDuration]_vars

\* C15: the elements of the container are in the order of their creation
\* (elements are numbered as createElement makes them): a new element goes
\* last, an update leaves the order alone, a removal keeps the others' order.
ContainerInCreationOrder ==
    \A i, j \in DOMAIN wrapper : i < j => wrapper[i] < wrapper[j]

\* C15 witness: the first and the third element created are displayed, the
\* second one was removed from between them, and an update has just run.
MiddleRemovedThenUpdated ==
    /\ Len(wrapper) = 2
    /\ wrapper[1] = 1
    /\ wrapper[2] = 3
    /\ last.op = "showToast"
    /\ last.hit

----------------------------------------------------------------------------
(* Contact form: the submit handler of initContactForm *)

\* number of submissions whose simulated send is still pending
MaxPending == 2

\* l.276, 282, 289: the texts the handler shows
MsgInvalid == "Please fill all fields correctly."
MsgSending == "Sending message..."
MsgSent == "Message sent - I will contact you soon!"

\* l.285: the simulated send takes 900 ms
SendDelay == 900

\* l.269-272: per field, whether its trimmed value is non-empty (for the
\* email: whether validateEmail accepts it)
FormInputs == [name : BOOLEAN, email : BOOLEAN, subject : BOOLEAN, textarea : BOOLEAN]

\* l.275: the negation of the validation failure
Valid(input) == input.name /\ input.email /\ input.subject /\ input.textarea

\* The toast state as a value, for handlers that make several toast calls in
\* one run.  `full` says that a call had to create an element beyond the
\* bound of the model.
ToastState ==
    [toasts |-> _toasts, wrapper |-> wrapper, text |-> textContent,
     timers |-> timers, nextEl |-> nextEl, autoEls |-> autoEls,
     removedByCall |-> removedByCall, ret |-> ret, hit |-> FALSE, full |-> FALSE]

\* l.350-395: showToast applied to the toast state st
ShowToastIn(st, message, optId, optAutoClose, optDuration, gen) ==
    LET id == ResolveId(optId, gen) IN
    IF id \in DOMAIN st.toasts
    THEN [st EXCEPT !.text = SetText(st.text, st.toasts[id], message),
                    !.ret = id, !.hit = TRUE]
    ELSE IF st.nextEl > MaxToasts
    THEN [st EXCEPT !.full = TRUE]
    ELSE LET el == st.nextEl IN
         [st EXCEPT !.text = SetText(st.text, el, message),
                    !.wrapper = AppendChild(st.wrapper, el),
                    !.toasts = MapSet(st.toasts, id, el),
                    !.timers = IF ShouldAutoClose(optAutoClose)
                               THEN Append(st.timers,
                                           NewTimer(id, TimerDelay(optDuration), el))
                               ELSE st.timers,
                    !.autoEls = IF ShouldAutoClose(optAutoClose)
                                THEN st.autoEls \cup {el} ELSE st.autoEls,
                    !.nextEl = st.nextEl + 1,
                    !.ret = id, !.hit = FALSE]

\* mutant: removeToast forgets the element and only unregisters the id
RemoveToastInKeepsElement(st, id) ==
    IF id = NoId \/ id \notin DOMAIN st.toasts
    THEN st
    ELSE [st EXCEPT !.toasts = MapDelete(st.toasts, id)]

\* l.397-403: removeToast applied to the toast state st
RemoveToastIn(st, id) ==
    IF id = NoId \/ id \notin DOMAIN st.toasts
    THEN st
    ELSE LET el == st.toasts[id] IN
         [st EXCEPT !.wrapper = Detach(st.wrapper, el),
                    !.toasts = MapDelete(st.toasts, id),
                    !.text = DropText(st.text, el),
                    !.autoEls = st.autoEls \ {el},
                    !.removedByCall =
                        IF \E i \in DOMAIN st.timers : st.timers[i].el = el
                        THEN st.removedByCall \cup {el} ELSE st.removedByCall]

\* the handler's toast calls have run: st becomes the state of the page
Apply(st, op, message) ==
    /\ ~st.full
    /\ _toasts' = st.toasts
    /\ wrapper' = st.wrapper
    /\ textContent' = st.text
    /\ timers' = st.timers
    /\ nextEl' = st.nextEl
    /\ autoEls' = st.autoEls
    /\ removedByCall' = st.removedByCall
    /\ ret' = st.ret
    /\ wrapperExists' = TRUE
    /\ threw' = FALSE
    /\ last' = [op |-> op, hit |-> st.hit, optId |-> NoId, msg |-> message]

\* l.285: the timer that resumes a suspended submit handler.  It belongs to
\* no toast: its el is NoEl.
SendTimer == [id |-> NoId, delay |-> SendDelay, el |-> NoEl]

PendingSends == {i \in DOMAIN timers : timers[i].el = NoEl}

\* mutant: the handler does not wait for the send
ScheduleSendNever(queue) == queue

\* l.285: await new Promise(r => setTimeout(r, 900))
ScheduleSend(queue) == Append(queue, SendTimer)

\* How far a run follows one of the two sequences
\*   showToast(.., {autoClose:false, id:'sending'}); removeToast('sending');
\*   showToast(result)
\*   one valid submission; its completion
\* "off" once anything else has happened.
ScenarioAfter(sc, step) ==
    CASE sc = "start" /\ step = "showSending" -> "pending"
      [] sc = "pending" /\ step = "removeSending" -> "removed"
      [] sc = "removed" /\ step = "showResult" -> "resolved"
      [] sc = "start" /\ step = "submitValid" -> "submitted"
      [] sc = "submitted" /\ step = "sendDone" -> "resolved"
      [] OTHER -> "off"

Track(step) ==
    /\ scenario' = ScenarioAfter(scenario, step)
    /\ UNCHANGED <<everSelected, navVars, uiVars>>

\* l.266-278: a submission that fails validation
SubmitInvalid ==
    \E input \in FormInputs, gen \in GenIds :
        /\ ~Valid(input)
        /\ Apply(ShowToastIn(ToastState, MsgInvalid, NoId, "undefined", NoDuration, gen),
                 "submitInvalid", MsgInvalid)
        /\ Track("submitInvalid")

\* l.266-285: a valid submission, up to the await
SubmitValid ==
    \E input \in FormInputs :
        /\ Valid(input)
        /\ Cardinality(PendingSends) < MaxPending
        /\ LET shown == ShowToastIn(ToastState, MsgSending, "sending", "false",
                                    NoDuration, NoId)
           IN Apply([shown EXCEPT !.timers = ScheduleSend(shown.timers)],
                    "submitValid", MsgSending)
        /\ Track("submitValid")

\* l.287-291: the 900 ms have passed and the handler resumes.  Nothing in
\* the try block throws, the catch block (l.292-295) never runs.
SendDone ==
    \E i \in PendingSends, gen \in GenIds :
        /\ MayFire(i)
        /\ LET resumed == [ToastState EXCEPT !.timers = RemoveAt(timers, i)]
               shown == ShowToastIn(resumed, MsgSent, NoId, "undefined", NoDuration, gen)
           IN Apply(RemoveToastIn(shown, "sending"), "sendDone", MsgSent)
        /\ Track("sendDone")

\* l.392: the auto-close timer of a toast runs
FormFireTimer ==
    /\ \E i \in DOMAIN timers \ PendingSends : TimerFire(i)
    /\ scenario' = ScenarioAfter(scenario, "timer")
    /\ UNCHANGED <<everSelected, uiVars>>

NextForm == SubmitInvalid \/ SubmitValid \/ SendDone \/ FormFireTimer

SpecForm == InitToastOnly /\ [][NextForm]_vars

\* page code that drives a 'sending' toast by hand, next to the form
ManualShowSending ==
    /\ \E message \in Messages :
           ShowToast(message, "sending", "false", NoDuration, NoId)
    /\ scenario' = ScenarioAfter(scenario, "showSending")
    /\ UNCHANGED <<everSelected, uiVars>>

ManualRemoveSending ==
    /\ RemoveToast("sending")
    /\ scenario' = ScenarioAfter(scenario, "removeSending")
    /\ UNCHANGED <<everSelected, uiVars>>

ManualShowResult ==
    /\ \E message \in Messages, gen \in GenIds :
           ShowToast(message, NoId, "undefined", NoDuration, gen)
    /\ scenario' = ScenarioAfter(scenario, "showResult")
    /\ UNCHANGED <<everSelected, uiVars>>

NextLifecycle ==
    \/ ManualShowSending \/ ManualRemoveSending \/ ManualShowResult
    \/ SubmitInvalid \/ SubmitValid \/ SendDone \/ FormFireTimer

SpecLifecycle == InitToastOnly /\ [][NextLifecycle]_vars

----------------------------------------------------------------------------
(* Properties of the contact form *)

SendingEls == {e \in Range(wrapper) : textContent[e] = MsgSending}

\* C13: started from an empty registry, the sequence showToast(..,
\* {autoClose:false, id:'sending'}), removeToast('sending'), showToast(result)
\* ends with exactly one notification, and it reads the result message; one
\* valid submission of the contact form followed by its completion ends in
\* that same state, reading the handler's success message.
PendingThenResolved ==
    scenario = "resolved"
        => /\ Cardinality(DOMAIN _toasts) = 1
           /\ Len(wrapper) = 1
           /\ GetToast(ret) = wrapper[1]
           /\ textContent[wrapper[1]] = last.msg
           /\ "sending" \notin DOMAIN _toasts
           /\ last.op = "sendDone" => last.msg = MsgSent

\* C13 witness: the form's handler has completed its one submission; the
\* 'sending' element (the first created) is gone, the success toast is shown.
ResolvedBySubmit ==
    /\ scenario = "resolved"
    /\ last.op = "sendDone"
    /\ wrapper = <<2>>

\* C16 (as claimed): while a valid submission is pending, 'sending' is in the
\* registry and displayed, and exactly one notification reads the sending
\* message, also when submissions overlap.
SendingShownWhilePending ==
    PendingSends # {}
        => /\ "sending" \in DOMAIN _toasts
           /\ GetToast("sending") \in Range(wrapper)
           /\ Cardinality(SendingEls) = 1

\* C17: after any sequence of valid and invalid submissions, once every
\* simulated send has completed and every timer has fired, the registry is
\* empty and the container holds no toast.
SettledIsEmpty ==
    timers = <<>> => (DOMAIN _toasts = {} /\ wrapper = <<>>)

\* C17 witness: three toasts were created by valid and invalid submissions
\* and the last timer has just fired.
AllSubmissionsSettled ==
    /\ timers = <<>>
    /\ nextEl >= 4
    /\ last.op = "timer"
    /\ wrapper = <<>>

----------------------------------------------------------------------------
(* Mobile menu, project previews and the Escape key *)

\* number of project overlays in the document at one time
MaxModals == 3

\* l.182: the titles of the project cards of the page
Cards == {"p1", "p2"}
OverlayIds == 1..MaxModals
\* l.244: what a click inside an open preview lands on
ClickTargets == {"overlay", "modal"}
Keys == {"Escape", "Enter"}

\* l.32: active ? 'true' : 'false'
AriaFor(isActive) == IF isActive THEN "true" ELSE "false"

\* mutant: the page stays locked when the menu closes
OverflowForLocked(isActive) == "hidden"

\* l.35: active ? 'hidden' : ''
OverflowFor(isActive) == IF isActive THEN "hidden" ELSE ""

\* history: the event, whether the menu was open and how many overlays the
\* document held when it arrived
Event(ev) == [ev |-> ev, menuWasOpen |-> navMenuActive, overlaysBefore |-> Len(overlays)]

\* l.30-36: click on .hamburger.  classList.toggle('active') returns the new
\* state; toggle('is-open', active) forces the class to that state.
HamburgerClick ==
    LET isActive == ~navMenuActive IN
    /\ navMenuActive' = isActive
    /\ ariaExpanded' = AriaFor(isActive)
    /\ hamburgerIsOpen' = isActive
    /\ bodyOverflow' = OverflowFor(isActive)
    /\ uiLast' = Event("hamburger")
    /\ UNCHANGED <<modalVars, toastVars, navVars, trackVars>>

\* l.43-48 and l.333-338: the same four statements in both handlers
CloseMenuIfActive ==
    IF navMenuActive
    THEN /\ navMenuActive' = FALSE
         /\ hamburgerIsOpen' = FALSE
         /\ ariaExpanded' = "false"
         /\ bodyOverflow' = ""
    ELSE UNCHANGED menuVars

\* l.40-50: click on a .nav-link
NavLinkClick ==
    /\ CloseMenuIfActive
    /\ uiLast' = Event("navlink")
    /\ UNCHANGED <<modalVars, toastVars, navVars, trackVars>>

\* the preview state as a value, for the handlers of one keydown dispatch
ModalState == [overlays |-> overlays, titles |-> overlayTitle, listeners |-> escListeners]

\* l.255, 341: overlay.remove()
RemoveOverlay(m, o) ==
    [m EXCEPT !.overlays = SelectSeq(m.overlays, LAMBDA x : x # o),
              !.titles = [x \in DOMAIN m.titles \ {o} |-> m.titles[x]]]

\* mutant: closeModal leaves its escListener registered
RemoveEventListenerNever(m, o) == m

\* l.254: document.removeEventListener('keydown', escListener)
RemoveEventListener(m, o) ==
    [m EXCEPT !.listeners = SelectSeq(m.listeners, LAMBDA x : x # o)]

\* l.253-256: closeModal of the preview whose overlay is o
CloseModal(m, o) == RemoveOverlay(RemoveEventListener(m, o), o)

SetModal(m) ==
    /\ overlays' = m.overlays
    /\ overlayTitle' = m.titles
    /\ escListeners' = m.listeners

FreeOverlayIds == OverlayIds \ (Range(overlays) \cup Range(escListeners))

\* l.170-175, 180-251: click on a .project-link inside a .project-card
OpenProjectModal ==
    \E card \in Cards :
        /\ Len(overlays) < MaxModals
        /\ FreeOverlayIds # {}
        /\ LET o == CHOOSE x \in FreeOverlayIds : \A y \in FreeOverlayIds : x <= y IN
           /\ overlays' = Append(overlays, o)
           /\ overlayTitle' = [x \in DOMAIN overlayTitle \cup {o} |->
                                  IF x = o THEN card ELSE overlayTitle[x]]
           /\ escListeners' = Append(escListeners, o)
        /\ uiLast' = Event("open")
        /\ UNCHANGED <<menuVars, toastVars, navVars, trackVars>>

\* l.241-242: click on .modal-close or .modal-action-close of a preview
CloseButtonClick ==
    \E o \in Range(overlays) :
        /\ SetModal(CloseModal(ModalState, o))
        /\ uiLast' = Event("closeButton")
        /\ UNCHANGED <<menuVars, toastVars, navVars, trackVars>>

\* l.243-245: a click that reaches the overlay's listener
OverlayClick ==
    \E o \in Range(overlays), target \in ClickTargets :
        /\ SetModal(IF target = "overlay" THEN CloseModal(ModalState, o) ELSE ModalState)
        /\ uiLast' = Event("overlayClick")
        /\ UNCHANGED <<menuVars, toastVars, navVars, trackVars>>

\* l.340-341: querySelector finds the first overlay of the document
RemoveFirstOverlay(m) ==
    IF m.overlays = <<>> THEN m ELSE RemoveOverlay(m, Head(m.overlays))

\* l.248-250: the escListeners registered when the key arrived run in
\* registration order; removing one does not keep the others from running
RECURSIVE RunEscListeners(_, _)
RunEscListeners(m, ls) ==
    IF ls = <<>> THEN m
    ELSE RunEscListeners(CloseModal(m, Head(ls)), Tail(ls))

\* l.328-343 then l.248-250: one keydown on document, fully dispatched.  The
\* listener of initAccessibilityShortcuts was registered at load, before any
\* escListener, and runs first.
KeyDown ==
    \E key \in Keys :
        /\ IF key = "Escape"
           THEN /\ CloseMenuIfActive
                /\ SetModal(RunEscListeners(RemoveFirstOverlay(ModalState), escListeners))
           ELSE UNCHANGED <<menuVars, modalVars>>
        /\ uiLast' = Event(key)
        /\ UNCHANGED <<toastVars, navVars, trackVars>>

\* l.24-27: the menu is closed; aria-expanded is "false" or not set
InitUI ==
    /\ navMenuActive = FALSE
    /\ hamburgerIsOpen = FALSE
    /\ ariaExpanded \in {"false", "absent"}
    /\ bodyOverflow = ""
    /\ overlays = <<>>
    /\ overlayTitle = <<>>
    /\ escListeners = <<>>
    /\ uiLast = [ev |-> "load", menuWasOpen |-> FALSE, overlaysBefore |-> 0]

InitUIOnly == InitToast /\ InitNavIdle /\ InitTrack /\ InitUI

NextUI ==
    \/ HamburgerClick \/ NavLinkClick
    \/ OpenProjectModal \/ CloseButtonClick \/ OverlayClick
    \/ KeyDown

SpecUI == InitUIOnly /\ [][NextUI]_vars

----------------------------------------------------------------------------
(* Properties of the menu and of the previews *)

\* C18: starting from a closed menu, after any hamburger clicks, nav-link
\* clicks and Escape presses the four indicators agree: .nav-menu is 'active'
\* exactly when .hamburger is 'is-open', aria-expanded is 'true' and the body
\* overflow is 'hidden'; after a nav-link click or an Escape press the menu
\* is closed.
MenuIndicatorsAgree ==
    /\ navMenuActive <=> hamburgerIsOpen
    /\ navMenuActive <=> ariaExpanded = "true"
    /\ navMenuActive <=> bodyOverflow = "hidden"
    /\ uiLast.ev \in {"navlink", "Escape"} => ~navMenuActive

\* C18 witness: an Escape press has just closed the open menu.
EscapeClosedMenu ==
    /\ uiLast.ev = "Escape"
    /\ uiLast.menuWasOpen
    /\ ~navMenuActive
    /\ bodyOverflow = ""

\* C19: after any sequence of preview openings, close-button clicks, overlay
\* clicks and key presses, each fully dispatched, as many escListeners are
\* registered on document as there are overlays in the document, one per
\* overlay; after an Escape press there are no overlays and no escListeners,
\* however many previews were open.
EscListenersMatchOverlays ==
    /\ Len(escListeners) = Len(overlays)
    /\ Range(escListeners) = Range(overlays)
    /\ Cardinality(Range(overlays)) = Len(overlays)
    /\ uiLast.ev = "Escape" => (overlays = <<>> /\ escListeners = <<>>)

\* C19 witness: Escape was pressed with several previews open.
EscapeClosedSeveral ==
    /\ uiLast.ev = "Escape"
    /\ uiLast.overlaysBefore >= 2
    /\ overlays = <<>>
    /\ escListeners = <<>>

=============================================================================
